---- MODULE Spec2Model ----
(***************************************************************************)
(* Repset external socket server: the socket.io connection handler, the    *)
(* presence map onlineBridges, the two relays and logToDatabase's retry    *)
(* loop. One action per socket.io event handler and per resumption of a    *)
(* logToDatabase call (the fetch settling, the backoff timer firing).      *)
(***************************************************************************)
EXTENDS Integers, Sequences, FiniteSets, TLC

\* ---------------------------------------------------------------- bounds
MaxConns == 3
MaxChains == 1
MaxEvents == 4

Conns == 1..MaxConns

\* ------------------------------------------------------- values and inputs
\* JavaScript's undefined, for an absent handshake field or payload property.
Undefined == "<undefined>"

ADMIN_SECRET == "admin-secret"

GymIds == {"g1", "g2"}

\* What a client may put in socket.handshake.auth. The handler reads type
\* only once the socket is admitted, so the handshakes it rejects are drawn
\* with one type and every secret and gymId.
AuthSecrets == {ADMIN_SECRET, "wrong"}
AuthGymIds == GymIds \cup {"", Undefined}
AuthTypes == {"BRIDGE", "ADMIN", "KIOSK"}
Auths ==
    {a \in [gymId : AuthGymIds, secret : AuthSecrets, type : AuthTypes] :
        a.type = "BRIDGE" \/ (a.secret = ADMIN_SECRET /\ a.gymId \in GymIds)}

NoAuth == [gymId |-> Undefined, secret |-> Undefined, type |-> Undefined]

\* Payloads a client may send with an event, each a record of the properties
\* the handlers read. shape is the JavaScript kind of
\* the value: an object with the listed properties, a primitive (a number or
\* a string, whose properties all read as undefined) or nullish (undefined
\* when the event carries no argument, or null), whose property reads throw.
ObjPayload(action, type, userId, gymId, timestamp) ==
    [shape |-> "object", action |-> action, type |-> type, userId |-> userId,
     gymId |-> gymId, timestamp |-> timestamp]
CommandPayload == ObjPayload("UNLOCK", Undefined, "101", Undefined, Undefined)
EventPayload == ObjPayload(Undefined, "ATTENDANCE", "101", Undefined, "t1")
SpoofPayload == ObjPayload(Undefined, "ATTENDANCE", "101", "g2", Undefined)
\* A timestamp property that is there but falsy (an empty string).
BlankStampPayload == ObjPayload(Undefined, "ATTENDANCE", "101", Undefined, "")
NullishPayload ==
    [shape |-> "nullish", action |-> Undefined, type |-> Undefined,
     userId |-> Undefined, gymId |-> Undefined, timestamp |-> Undefined]
\* A number or a string sent as the payload: property reads give undefined.
PrimitivePayload ==
    [shape |-> "primitive", action |-> Undefined, type |-> Undefined,
     userId |-> Undefined, gymId |-> Undefined, timestamp |-> Undefined]
\* What arrives with a cloud-command and with a hardware-event.
CommandPayloads == {CommandPayload, PrimitivePayload, NullishPayload}
EventPayloads ==
    {EventPayload, SpoofPayload, BlankStampPayload, NullishPayload}

\* payload.<property> throws a TypeError exactly when payload is null/undefined.
Throws(payload) == payload.shape = "nullish"

\* JavaScript falsiness of the values a handshake field or property can hold.
Falsy(v) == v \in {"", Undefined}

\* `gym_${gymId}`
RoomName(gymId) == "gym_" \o gymId
RoomNames == {RoomName(g) : g \in GymIds}

\* What fetch (and the response check after it) can do in one attempt.
FetchOutcomes == {"ok", "non2xx", "timeout", "transport"}

\* ------------------------------------------------------------------ state
VARIABLES
    up,             \* the node process is running
    status,         \* per socket: "idle", "admitted", "closed"
    handshake,      \* per admitted socket: gymId, secret, type of its closure
    rooms,          \* socket.io rooms: room name -> set of member sockets
    onlineBridges,  \* the Map<GymID, SocketID>
    chains,         \* the logToDatabase calls started so far, in order
    events,         \* how many socket events have been handled
    out,            \* per socket: the messages the last step emitted to it
    heard,          \* per connected socket: the status of the last
                    \* bridge-status it was sent, "NONE" before the first
    inbox,          \* per connected socket: the relayed messages it was
                    \* sent so far, oldest first (kept under OrderSpec only)
    last            \* the event the last step handled

vars == <<up, status, handshake, rooms, onlineBridges, chains, events, out,
         heard, inbox, last>>

NoOut == [c \in Conns |-> <<>>]

\* Map operations on onlineBridges (a function whose domain is the key set).
MapHas(m, k) == k \in DOMAIN m
\* An existing entry is kept: the first bridge stays the tracked one.
MapSetKeepFirst(m, k, v) ==
    [x \in (DOMAIN m) \cup {k} |-> IF x \in DOMAIN m THEN m[x] ELSE v]
MapSet(m, k, v) == [x \in (DOMAIN m) \cup {k} |-> IF x = k THEN v ELSE m[x]]
\* The delete is forgotten.
MapDeleteKept(m, k) == m
MapDelete(m, k) == [x \in (DOMAIN m) \ {k} |-> m[x]]
EmptyMap == [x \in {} |-> 0]

Msg(event, data) == [event |-> event, data |-> data]
BridgeStatus(s) == Msg("bridge-status", [status |-> s])
AuthError == Msg("error", [message |-> "Authentication Failed: Invalid Secret"])

\* The broadcast reaches nobody.
IoToEmitNobody(rms, room, msg) == NoOut
\* io.to(room).emit(msg): one copy to every socket in the room.
IoToEmit(rms, room, msg) ==
    [c \in Conns |-> IF c \in rms[room] THEN <<msg>> ELSE <<>>]

\* socket.to(room).emit(msg): one copy to every socket in the room but socket.
SocketToEmit(rms, socket, room, msg) ==
    [c \in Conns |-> IF c \in rms[room] /\ c # socket THEN <<msg>> ELSE <<>>]

\* socket.emit(msg): one copy to socket alone.
SocketEmit(socket, msg) ==
    [c \in Conns |-> IF c = socket THEN <<msg>> ELSE <<>>]

\* The status of the last bridge-status among msgs, prev when there is none.
LastStatus(msgs, prev) ==
    IF msgs = <<>> THEN prev
    ELSE LET at == {i \in 1..Len(msgs) : msgs[i].event = "bridge-status"} IN
         IF at = {} THEN prev
         ELSE msgs[CHOOSE i \in at : \A j \in at : j <= i].data.status

\* Each connected socket takes in what the step emitted to it.
Hears ==
    heard' = [c \in Conns |->
                IF status'[c] = "admitted" THEN LastStatus(out'[c], heard[c])
                ELSE "NONE"]

Init ==
    /\ up = TRUE
    /\ status = [c \in Conns |-> "idle"]
    /\ handshake = [c \in Conns |-> NoAuth]
    /\ rooms = [r \in RoomNames |-> {}]
    /\ onlineBridges = EmptyMap
    /\ chains = <<>>
    /\ events = 0
    /\ out = NoOut
    /\ heard = [c \in Conns |-> "NONE"]
    /\ inbox = [c \in Conns |-> <<>>]
    /\ last = [op |-> "init", conn |-> 0, auth |-> NoAuth,
               payload |-> NullishPayload, chain |-> 0, outcome |-> Undefined]

\* The event loop takes the next socket event; at most MaxEvents are handled.
Handled ==
    /\ events < MaxEvents
    /\ events' = events + 1

Last(op, conn, auth, payload, chain, outcome) ==
    [op |-> op, conn |-> conn, auth |-> auth, payload |-> payload,
     chain |-> chain, outcome |-> outcome]

\* ------------------------------------------------- io.on("connection")
\* The broadcast goes to the room as it was before the bridge joined it.
handleBridgeConnectionBeforeJoin(socket, gymId, joined) ==
    /\ onlineBridges' = MapSet(onlineBridges, gymId, socket)
    /\ out' = IoToEmit(rooms, RoomName(gymId), BridgeStatus("ONLINE"))

handleBridgeConnection(socket, gymId, joined) ==
    /\ onlineBridges' = MapSet(onlineBridges, gymId, socket)
    /\ out' = IoToEmit(joined, RoomName(gymId), BridgeStatus("ONLINE"))

\* The two arms of the status ternary are swapped.
handleAdminConnectionSwapped(socket, gymId) ==
    /\ out' = SocketEmit(socket,
                  BridgeStatus(IF MapHas(onlineBridges, gymId)
                               THEN "OFFLINE" ELSE "ONLINE"))
    /\ UNCHANGED onlineBridges

handleAdminConnection(socket, gymId) ==
    /\ out' = SocketEmit(socket,
                  BridgeStatus(IF MapHas(onlineBridges, gymId)
                               THEN "ONLINE" ELSE "OFFLINE"))
    /\ UNCHANGED onlineBridges

\* A rejected socket is closed by socket.disconnect() before any handler is
\* registered on it, so no later event of it is ever handled.
\* socket.id is fresh for every connection: ids are handed out in order.
NextSocketId == Cardinality({c \in Conns : status[c] # "idle"}) + 1

\* The secret check is skipped.
InvalidSecretSkipped(secret) == FALSE

\* secret !== ADMIN_SECRET
InvalidSecret(secret) == secret # ADMIN_SECRET

Connection(socket, auth) ==
    /\ up
    /\ Handled
    /\ status[socket] = "idle"
    /\ socket = NextSocketId
    /\ last' = Last("connection", socket, auth, NullishPayload, 0, Undefined)
    /\ UNCHANGED <<up, chains>>
    /\ IF InvalidSecret(auth.secret)
       THEN /\ out' = SocketEmit(socket, AuthError)
            /\ status' = [status EXCEPT ![socket] = "closed"]
            /\ UNCHANGED <<handshake, rooms, onlineBridges>>
       ELSE IF Falsy(auth.gymId)
       THEN /\ out' = NoOut
            /\ status' = [status EXCEPT ![socket] = "closed"]
            /\ UNCHANGED <<handshake, rooms, onlineBridges>>
       ELSE LET roomName == RoomName(auth.gymId)
                joined == [rooms EXCEPT ![roomName] = @ \cup {socket}]
            IN /\ rooms' = joined
               /\ status' = [status EXCEPT ![socket] = "admitted"]
               /\ handshake' = [handshake EXCEPT ![socket] = auth]
               /\ IF auth.type = "BRIDGE"
                  THEN handleBridgeConnection(socket, auth.gymId, joined)
                  ELSE IF auth.type = "ADMIN"
                  THEN handleAdminConnection(socket, auth.gymId)
                  ELSE /\ out' = NoOut
                       /\ UNCHANGED onlineBridges
    /\ Hears

\* An uncaught exception in a handler: the emit after it is not reached. What
\* becomes of the process depends on the runtime (an uncaught exception or an
\* unhandled rejection ends it by default; older runtimes only warn about a
\* rejection), so both outcomes are possible.
HandlerThrows ==
    /\ up' \in BOOLEAN
    /\ out' = NoOut

\* ------------------------------------------- socket.on("cloud-command")
CloudCommand(socket, payload) ==
    /\ up
    /\ Handled
    /\ status[socket] = "admitted"
    /\ last' = Last("cloud-command", socket, handshake[socket], payload, 0,
                    Undefined)
    /\ UNCHANGED <<status, handshake, rooms, onlineBridges, chains>>
    /\ IF Throws(payload)
       THEN HandlerThrows
       ELSE /\ out' = SocketToEmit(rooms, socket,
                          RoomName(handshake[socket].gymId),
                          Msg("cloud-command", payload))
            /\ UNCHANGED up
    /\ Hears

\* ------------------------------------------------------ logToDatabase
\* retries = 3, the default parameter: the only caller passes none.
DefaultRetries == 3

\* A doubling backoff, 1000 * 2 ** attempt.
BackoffDelayDoubling(attempt) == 1000 * 2 ^ attempt

\* 1000 * attempt, the argument of setTimeout, in milliseconds.
BackoffDelay(attempt) == 1000 * attempt

\* The call's state when it first suspends: attempt 1, awaiting fetch.
\* fetches counts the requests issued; outcomes records what the endpoint did
\* with each ("ok" for a 2xx response in time, "fail" for anything else);
\* delays records the argument of every setTimeout.
StartChain(eventData) ==
    [eventData |-> eventData, retries |-> DefaultRetries, attempt |-> 1,
     pc |-> "fetch", result |-> "pending", fetches |-> 1, outcomes |-> <<>>,
     delays |-> <<>>]

\* The object literal handed to logToDatabase by the hardware-event handler.
\* The payload's own gymId is used when it has one.
EventDataFromPayload(payload, gymId) ==
    [type |-> payload.type, userId |-> payload.userId,
     gymId |-> IF Falsy(payload.gymId) THEN gymId ELSE payload.gymId,
     timestamp |-> IF Falsy(payload.timestamp) THEN "now"
                   ELSE payload.timestamp]
EventData(payload, gymId) ==
    [type |-> payload.type, userId |-> payload.userId, gymId |-> gymId,
     timestamp |-> IF Falsy(payload.timestamp) THEN "now"
                   ELSE payload.timestamp]

\* The !response.ok check is missing.
AttemptFailsNoStatusCheck(outcome) == outcome \in {"timeout", "transport"}

\* The try block throws: fetch rejects on a timeout or a transport failure,
\* and !response.ok throws for a response outside 2xx.
AttemptFails(outcome) == outcome \in {"timeout", "transport", "non2xx"}

\* attempt === retries
FinalAttempt(attempt, retries) == attempt = retries

\* The final failure is announced to the gym's room.
FetchSettlesNotifying(i, outcome) ==
    /\ up
    /\ i \in 1..Len(chains)
    /\ chains[i].pc = "fetch"
    /\ last' = Last("fetch-settles", 0, NoAuth, NullishPayload, i, outcome)
    /\ UNCHANGED <<up, status, handshake, rooms, onlineBridges, events>>
    /\ LET ch == chains[i]
           seen == Append(ch.outcomes, IF outcome = "ok" THEN "ok" ELSE "fail")
       IN
       IF ~AttemptFails(outcome)
       THEN /\ out' = NoOut
            /\ chains' = [chains EXCEPT ![i].pc = "done", ![i].result = "true",
                                        ![i].outcomes = seen]
       ELSE IF FinalAttempt(ch.attempt, ch.retries)
       THEN /\ out' = IoToEmit(rooms, RoomName(ch.eventData.gymId),
                               Msg("error", "log failed"))
            /\ chains' = [chains EXCEPT ![i].pc = "done", ![i].result = "false",
                                        ![i].outcomes = seen]
       ELSE /\ out' = NoOut
            /\ chains' = [chains EXCEPT ![i].pc = "sleep", ![i].outcomes = seen,
                             ![i].delays = Append(@, BackoffDelay(ch.attempt))]
    /\ Hears

\* await fetch(...) settles for call i: the try block returns true, or the
\* catch block runs and either returns false or starts the backoff timer.
FetchSettles(i, outcome) ==
    /\ up
    /\ i \in 1..Len(chains)
    /\ chains[i].pc = "fetch"
    /\ last' = Last("fetch-settles", 0, NoAuth, NullishPayload, i, outcome)
    /\ out' = NoOut
    /\ UNCHANGED <<up, status, handshake, rooms, onlineBridges, events>>
    /\ LET ch == chains[i]
           seen == Append(ch.outcomes, IF outcome = "ok" THEN "ok" ELSE "fail")
       IN
       IF ~AttemptFails(outcome)
       THEN chains' = [chains EXCEPT ![i].pc = "done", ![i].result = "true",
                                     ![i].outcomes = seen]
       ELSE IF FinalAttempt(ch.attempt, ch.retries)
       THEN chains' = [chains EXCEPT ![i].pc = "done", ![i].result = "false",
                                     ![i].outcomes = seen]
       ELSE chains' = [chains EXCEPT ![i].pc = "sleep", ![i].outcomes = seen,
                          ![i].delays = Append(@, BackoffDelay(ch.attempt))]
    /\ Hears

\* The backoff timer of call i fires: attempt++ and the next fetch is issued.
TimerFires(i) ==
    /\ up
    /\ i \in 1..Len(chains)
    /\ chains[i].pc = "sleep"
    /\ last' = Last("timer-fires", 0, NoAuth, NullishPayload, i, Undefined)
    /\ out' = NoOut
    /\ UNCHANGED <<up, status, handshake, rooms, onlineBridges, events>>
    /\ chains' = [chains EXCEPT ![i].pc = "fetch", ![i].attempt = @ + 1,
                                ![i].fetches = @ + 1]
    /\ Hears

\* ------------------------------------------ socket.on("hardware-event")
HardwareEvent(socket, payload) ==
    /\ up
    /\ Handled
    /\ status[socket] = "admitted"
    /\ Len(chains) < MaxChains
    /\ last' = Last("hardware-event", socket, handshake[socket], payload, 0,
                    Undefined)
    /\ UNCHANGED <<status, handshake, rooms, onlineBridges>>
    /\ IF Throws(payload)
       THEN /\ HandlerThrows
            /\ UNCHANGED chains
       ELSE /\ chains' = Append(chains,
                   StartChain(EventData(payload, handshake[socket].gymId)))
            /\ out' = SocketToEmit(rooms, socket,
                          RoomName(handshake[socket].gymId),
                          Msg("hardware-event", payload))
            /\ UNCHANGED up
    /\ Hears

\* The role check is dropped: every disconnect clears the record and says
\* OFFLINE.
DisconnectAnyRole(socket) ==
    /\ up
    /\ Handled
    /\ status[socket] = "admitted"
    /\ last' = Last("disconnect", socket, handshake[socket], NullishPayload, 0,
                    Undefined)
    /\ status' = [status EXCEPT ![socket] = "closed"]
    /\ handshake' = [handshake EXCEPT ![socket] = NoAuth]
    /\ UNCHANGED <<up, chains>>
    /\ LET left == [r \in RoomNames |-> rooms[r] \ {socket}] IN
       /\ rooms' = left
       /\ onlineBridges' = MapDelete(onlineBridges, handshake[socket].gymId)
       /\ out' = IoToEmit(left, RoomName(handshake[socket].gymId),
                          BridgeStatus("OFFLINE"))
    /\ Hears

\* ------------------------------------------------ socket.on("disconnect")
\* The transport has taken the socket out of its rooms before the handler
\* runs.
Disconnect(socket) ==
    /\ up
    /\ Handled
    /\ status[socket] = "admitted"
    /\ last' = Last("disconnect", socket, handshake[socket], NullishPayload, 0,
                    Undefined)
    /\ status' = [status EXCEPT ![socket] = "closed"]
    /\ handshake' = [handshake EXCEPT ![socket] = NoAuth]
    /\ UNCHANGED <<up, chains>>
    /\ LET left == [r \in RoomNames |-> rooms[r] \ {socket}] IN
       /\ rooms' = left
       /\ IF handshake[socket].type = "BRIDGE"
          THEN /\ onlineBridges' =
                      MapDelete(onlineBridges, handshake[socket].gymId)
               /\ out' = IoToEmit(left, RoomName(handshake[socket].gymId),
                                  BridgeStatus("OFFLINE"))
          ELSE /\ out' = NoOut
               /\ UNCHANGED onlineBridges
    /\ Hears

\* ------------------------------------------------------------ behaviours
\* The program's behaviours; the receive log is not kept.
Next ==
    \/ \E socket \in Conns, auth \in Auths : Connection(socket, auth) /\ UNCHANGED inbox
    \/ \E socket \in Conns, payload \in CommandPayloads :
         CloudCommand(socket, payload) /\ UNCHANGED inbox
    \/ \E socket \in Conns, payload \in EventPayloads :
         HardwareEvent(socket, payload) /\ UNCHANGED inbox
    \/ \E socket \in Conns : Disconnect(socket) /\ UNCHANGED inbox
    \/ \E i \in 1..MaxChains, outcome \in FetchOutcomes :
         FetchSettles(i, outcome) /\ UNCHANGED inbox
    \/ \E i \in 1..MaxChains : TimerFires(i) /\ UNCHANGED inbox
Spec == Init /\ [][Next]_vars

\* A relayed message as its receiver logs it: its event name, who sent it and
\* the position of its handling among the events the server handled.
RelayEvents == {"cloud-command", "hardware-event"}
IsRelay(m) == m.event \in RelayEvents
Logged(msgs, from, n) ==
    LET relayed == SelectSeq(msgs, IsRelay) IN
    [i \in 1..Len(relayed) |->
        [from |-> from, n |-> n, event |-> relayed[i].event]]

\* The sockets are sent their messages in the order they are emitted; the
\* log of each.
ReceivesNewestFirst ==
    inbox' = [c \in Conns |->
                IF status'[c] = "admitted"
                THEN Logged(out'[c], last'.conn, events') \o inbox[c]
                ELSE <<>>]
Receives ==
    inbox' = [c \in Conns |->
                IF status'[c] = "admitted"
                THEN inbox[c] \o Logged(out'[c], last'.conn, events')
                ELSE <<>>]

\* The same behaviours with every socket's receive log kept.
OrderNext ==
    \/ \E socket \in Conns, auth \in Auths : Connection(socket, auth) /\ Receives
    \/ \E socket \in Conns, payload \in CommandPayloads :
         CloudCommand(socket, payload) /\ Receives
    \/ \E socket \in Conns, payload \in EventPayloads :
         HardwareEvent(socket, payload) /\ Receives
    \/ \E socket \in Conns : Disconnect(socket) /\ Receives
    \/ \E i \in 1..MaxChains, outcome \in FetchOutcomes :
         FetchSettles(i, outcome) /\ Receives
    \/ \E i \in 1..MaxChains : TimerFires(i) /\ Receives
OrderSpec == Init /\ [][OrderNext]_vars

\* The event loop resumes every pending logToDatabase call: a fetch settles
\* (by the 5000 ms timeout at the latest) and a backoff timer fires.
FairSpec ==
    /\ Spec
    /\ \A i \in 1..MaxChains :
         /\ WF_vars(\E outcome \in FetchOutcomes :
                       FetchSettles(i, outcome) /\ UNCHANGED inbox)
         /\ WF_vars(TimerFires(i) /\ UNCHANGED inbox)

\* ============================================================== claims
\* The connection and the handshake the last step was about.
LastConn == last.conn

\* C1: a connection attempt is admitted (it joins its gym's room, its closure
\* keeps the handshake and the role setup runs) if and only if its secret is
\* ADMIN_SECRET and its gymId is non-empty; every other attempt is terminated
\* and leaves the presence map, every room and every other connection's
\* messages as they were, and no later event of a terminated connection is
\* handled (it has no handlers), so its closing changes nothing either.
C1_AdmittedIffAuthenticated ==
    [][/\ last'.op = "connection" =>
            LET c == last'.conn
                a == last'.auth
            IN IF a.secret = ADMIN_SECRET /\ a.gymId \notin {"", Undefined}
               THEN /\ status'[c] = "admitted"
                    /\ handshake'[c] = a
                    /\ c \in rooms'[RoomName(a.gymId)]
                    /\ a.type = "BRIDGE" => MapHas(onlineBridges', a.gymId)
                    /\ a.type = "ADMIN" => Len(out'[c]) = 1
               ELSE /\ status'[c] = "closed"
                    /\ rooms' = rooms
                    /\ onlineBridges' = onlineBridges
                    /\ \A d \in Conns \ {c} : out'[d] = <<>>
       /\ \A d \in Conns :
            status[d] = "closed" => (status'[d] = "closed" /\ last'.conn # d)
      ]_vars

\* C1 witness: a BRIDGE attempt with a wrong secret naming gym g1 has just
\* been rejected while another bridge holds g1's presence record.
C1_Witness ==
    /\ last.op = "connection"
    /\ last.auth.type = "BRIDGE"
    /\ last.auth.gymId = "g1"
    /\ last.auth.secret # ADMIN_SECRET
    /\ status[LastConn] = "closed"
    /\ MapHas(onlineBridges, "g1")
    /\ onlineBridges["g1"] # LastConn

\* C2: a cloud-command emitted by an admitted connection c of gym g is
\* delivered exactly once to every other member of g's room at that moment,
\* not to c and not to any connection outside that room.
C2_CommandReachesGroup ==
    [][last'.op = "cloud-command" =>
         LET c == last'.conn
             room == RoomName(handshake[c].gymId)
         IN out' = [d \in Conns |->
                      IF d \in rooms[room] /\ d # c
                      THEN <<Msg("cloud-command", last'.payload)>>
                      ELSE <<>>]
      ]_vars

\* C3: the step that handles a hardware-event from connection c relays it to
\* every other member of c's room and starts the persistence chain, which is
\* still awaiting its first attempt when the relay is done.
C3_RelayWithChainStart ==
    [][last'.op = "hardware-event" =>
         LET c == last'.conn
             room == RoomName(handshake[c].gymId)
         IN /\ out' = [d \in Conns |->
                         IF d \in rooms[room] /\ d # c
                         THEN <<Msg("hardware-event", last'.payload)>>
                         ELSE <<>>]
            /\ Len(chains') = Len(chains) + 1
            /\ chains'[Len(chains')].pc = "fetch"
            /\ chains'[Len(chains')].outcomes = <<>>
      ]_vars

\* The index of the first successful attempt in a record of outcomes, 0 when
\* none succeeded.
FirstOk(outcomes) ==
    LET oks == {j \in 1..Len(outcomes) : outcomes[j] = "ok"}
    IN IF oks = {} THEN 0 ELSE CHOOSE j \in oks : \A m \in oks : j <= m

\* C4: a logToDatabase call makes exactly min(k, 3) attempts, k the index of
\* the first successful attempt: none after a success, never a 4th, true iff
\* one of attempts 1..3 succeeded, false after exactly 3 failed attempts; a
\* timeout, a transport failure and a non-2xx response each count as failed.
C4_AttemptsUntilFirstSuccess ==
    /\ \A i \in 1..Len(chains) :
         LET ch == chains[i]
             k == FirstOk(ch.outcomes)
         IN /\ ch.fetches <= 3
            /\ Len(ch.outcomes) <= ch.fetches
            /\ k > 0 => (ch.fetches = k /\ Len(ch.outcomes) = k)
            /\ ch.pc = "done" =>
                 /\ Len(ch.outcomes) = ch.fetches
                 /\ ch.fetches = (IF k > 0 THEN k ELSE 3)
                 /\ ch.result = (IF k > 0 THEN "true" ELSE "false")
            /\ ch.pc # "done" => (ch.result = "pending" /\ k = 0)
    /\ (last.op = "fetch-settles"
          /\ last.outcome \in {"timeout", "transport", "non2xx"}) =>
         LET ch == chains[last.chain]
         IN /\ ch.outcomes[Len(ch.outcomes)] = "fail"
            /\ ch.result # "true"
            /\ ch.pc = "done" <=> Len(ch.outcomes) = 3

\* C4 witness: a call has returned false on its 3rd failed attempt, the last
\* one a non-2xx response.
C4_Witness ==
    /\ last.op = "fetch-settles"
    /\ last.outcome = "non2xx"
    /\ chains[last.chain].pc = "done"
    /\ chains[last.chain].result = "false"
    /\ chains[last.chain].fetches = 3

RECURSIVE SumSeq(_)
SumSeq(seq) == IF seq = <<>> THEN 0 ELSE Head(seq) + SumSeq(Tail(seq))

C6_RejectionNotifiesOnce ==
    [][last'.op = "connection" =>
         LET c == last'.conn
             errors == {i \in 1..Len(out'[c]) : out'[c][i].event = "error"}
         IN IF status'[c] = "closed"
            THEN Cardinality(errors) = 1
            ELSE errors = {}
      ]_vars

\* C7: a gym's presence record is removed only by the disconnection of the
\* bridge the record tracks, so it exists while that bridge is connected.
C7_RecordRemovedOnlyByTrackedBridge ==
    [][\A g \in GymIds :
         (MapHas(onlineBridges, g) /\ ~MapHas(onlineBridges', g)) =>
           (last'.op = "disconnect" /\ last'.conn = onlineBridges[g])
      ]_vars

\* C8: when an admitted BRIDGE of gym g disconnects, g's presence record is
\* removed, every member of g's room at that moment (the bridge has left it)
\* gets exactly one bridge-status OFFLINE, nobody else gets anything and no
\* other gym's record changes.
C8_BridgeDisconnectOffline ==
    [][(last'.op = "disconnect" /\ handshake[last'.conn].type = "BRIDGE") =>
         LET c == last'.conn
             g == handshake[c].gymId
         IN /\ ~MapHas(onlineBridges', g)
            /\ out' = [d \in Conns |->
                         IF d \in rooms[RoomName(g)] \ {c}
                         THEN <<BridgeStatus("OFFLINE")>> ELSE <<>>]
            /\ \A h \in GymIds \ {g} :
                 /\ MapHas(onlineBridges', h) <=> MapHas(onlineBridges, h)
                 /\ MapHas(onlineBridges, h) =>
                      onlineBridges'[h] = onlineBridges[h]
      ]_vars

\* C8 witness: a bridge has just disconnected, a remaining member of its room
\* was told OFFLINE, and a connection of another gym is admitted.
C8_Witness ==
    /\ last.op = "disconnect"
    /\ last.auth.type = "BRIDGE"
    /\ ~MapHas(onlineBridges, last.auth.gymId)
    /\ \E d \in Conns : out[d] = <<BridgeStatus("OFFLINE")>>
    /\ \E e \in Conns : /\ status[e] = "admitted"
                        /\ handshake[e].gymId # last.auth.gymId

\* C9: when an admitted ADMIN of gym g connects, it alone gets exactly one
\* bridge-status, ONLINE if g has a presence record at that moment and OFFLINE
\* otherwise, and the presence map is unchanged.
C9_AdminSnapshot ==
    [][(last'.op = "connection" /\ status'[last'.conn] = "admitted"
          /\ last'.auth.type = "ADMIN") =>
         LET c == last'.conn
             g == last'.auth.gymId
         IN /\ out' = [d \in Conns |->
                         IF d = c
                         THEN <<BridgeStatus(IF g \in DOMAIN onlineBridges
                                             THEN "ONLINE" ELSE "OFFLINE")>>
                         ELSE <<>>]
            /\ onlineBridges' = onlineBridges
      ]_vars

\* C9 witness: an admin has just connected to a gym whose bridge is recorded
\* and was told ONLINE, with the bridge in the same room.
C9_Witness ==
    /\ last.op = "connection"
    /\ last.auth.type = "ADMIN"
    /\ status[LastConn] = "admitted"
    /\ out[LastConn] = <<BridgeStatus("ONLINE")>>
    /\ Cardinality(rooms[RoomName(last.auth.gymId)]) >= 2

\* C10: when an admitted BRIDGE b of gym g connects, g's presence record is
\* set to b and every member of g's room, b included, gets exactly one
\* bridge-status ONLINE, and no connection outside the room gets anything.
C10_BridgeConnectOnline ==
    [][(last'.op = "connection" /\ status'[last'.conn] = "admitted"
          /\ last'.auth.type = "BRIDGE") =>
         LET b == last'.conn
             g == last'.auth.gymId
         IN /\ MapHas(onlineBridges', g)
            /\ onlineBridges'[g] = b
            /\ b \in rooms'[RoomName(g)]
            /\ out' = [d \in Conns |->
                         IF d \in rooms[RoomName(g)] \cup {b}
                         THEN <<BridgeStatus("ONLINE")>> ELSE <<>>]
      ]_vars

\* C10 witness: a bridge has just connected to a gym whose room already held
\* an admin, and both were told ONLINE while a connection of another gym was
\* told nothing.
C10_Witness ==
    /\ last.op = "connection"
    /\ last.auth.type = "BRIDGE"
    /\ status[LastConn] = "admitted"
    /\ onlineBridges[last.auth.gymId] = LastConn
    /\ out[LastConn] = <<BridgeStatus("ONLINE")>>
    /\ \E d \in Conns \ {LastConn} :
         /\ handshake[d].type = "ADMIN"
         /\ out[d] = <<BridgeStatus("ONLINE")>>
    /\ \E e \in Conns : /\ status[e] = "admitted"
                        /\ handshake[e].gymId # last.auth.gymId
                        /\ out[e] = <<>>


\* C11: the presence map holds at most one socket id per gym; when a second
\* BRIDGE connects for a gym whose tracked bridge is still connected, the
\* record becomes the second bridge's id, the first bridge stays connected
\* and in the room, and the only messages of the step are the ONLINE
\* bridge-status broadcast to the room.
C11_OverwriteWithoutNotice ==
    [][/\ DOMAIN onlineBridges' \subseteq GymIds
       /\ \A g \in DOMAIN onlineBridges' : onlineBridges'[g] \in Conns
       /\ (last'.op = "connection" /\ status'[last'.conn] = "admitted"
             /\ last'.auth.type = "BRIDGE"
             /\ MapHas(onlineBridges, last'.auth.gymId)) =>
            LET second == last'.conn
                g == last'.auth.gymId
                first == onlineBridges[g]
            IN /\ onlineBridges'[g] = second
               /\ first # second
               /\ status[first] = "admitted" =>
                    /\ status'[first] = "admitted"
                    /\ handshake'[first] = handshake[first]
                    /\ first \in rooms'[RoomName(g)]
                    /\ out'[first] = <<BridgeStatus("ONLINE")>>
               /\ \A d \in Conns : \A i \in 1..Len(out'[d]) :
                    /\ out'[d][i] = BridgeStatus("ONLINE")
                    /\ d \in rooms'[RoomName(g)]
      ]_vars

\* C11 witness: a second bridge has just connected for g1 while the first is
\* still connected and in the room; the record holds the second.
C11_Witness ==
    /\ last.op = "connection"
    /\ last.auth.type = "BRIDGE"
    /\ last.auth.gymId = "g1"
    /\ MapHas(onlineBridges, "g1")
    /\ onlineBridges["g1"] = LastConn
    /\ \E first \in Conns \ {LastConn} :
         /\ status[first] = "admitted"
         /\ handshake[first].type = "BRIDGE"
         /\ handshake[first].gymId = "g1"
         /\ first \in rooms[RoomName("g1")]


\* C13: a cloud-command or hardware-event of any payload shape (missing
\* properties, extra properties, a non-object value, no payload at all) is
\* forwarded unchanged to every other member of the sender's room, handling
\* it raises no error (the process keeps running and handles later events),
\* and the presence map and the rooms are left as they were.
C13_AnyPayloadRelayed ==
    [][last'.op \in {"cloud-command", "hardware-event"} =>
         LET c == last'.conn
             room == RoomName(last'.auth.gymId)
         IN /\ out' = [d \in Conns |->
                         IF d \in rooms[room] \ {c}
                         THEN <<Msg(last'.op, last'.payload)>>
                         ELSE <<>>]
            /\ up'
            /\ onlineBridges' = onlineBridges
            /\ rooms' = rooms
      ]_vars


\* C12: under fair scheduling of fetches and timers every logToDatabase call
\* that has started eventually finishes, returning true or returning false
\* after 3 failed attempts, whatever connections and disconnections happen
\* meanwhile.
C12_ChainsFinish ==
    \A i \in 1..MaxChains :
        [](Len(chains) >= i =>
             <>(/\ Len(chains) >= i
                /\ chains[i].pc = "done"
                /\ \/ chains[i].result = "true"
                   \/ /\ chains[i].result = "false"
                      /\ chains[i].fetches = DefaultRetries))


\* C14: no step of a logToDatabase call (a fetch settling, a backoff timer
\* firing) emits a message to any connection, changes the presence map or
\* changes a room; this includes the step in which the call gives up.
C14_ChainStepsSilent ==
    [][last'.op \in {"fetch-settles", "timer-fires"} =>
         /\ out' = NoOut
         /\ onlineBridges' = onlineBridges
         /\ rooms' = rooms
         /\ status' = status
      ]_vars

\* C14 witness: a call has just given up after its last attempt while the
\* gym's room still has a member that could have been told.
C14_Witness ==
    /\ last.op = "fetch-settles"
    /\ chains[last.chain].pc = "done"
    /\ chains[last.chain].result = "false"
    /\ rooms[RoomName(chains[last.chain].eventData.gymId)] # {}
    /\ out = NoOut


\* C15: each hardware-event handled for an admitted connection starts exactly
\* one logToDatabase call (two identical events start two), and a
\* cloud-command, a connection or a disconnect starts none.
C15_OneChainPerHardwareEvent ==
    [][/\ last'.op = "hardware-event" =>
            /\ Len(chains') = Len(chains) + 1
            /\ SubSeq(chains', 1, Len(chains)) = chains
       /\ last'.op \in {"cloud-command", "connection", "disconnect"} =>
            chains' = chains
      ]_vars


\* C16: the disconnect of an ADMIN connection changes no presence record and
\* emits no message; its only effect is that the connection leaves its gym's
\* room and is closed, and a closed connection is never emitted to again.
C16_AdminDisconnectSilent ==
    [][/\ (last'.op = "disconnect" /\ last'.auth.type = "ADMIN") =>
            LET c == last'.conn IN
            /\ onlineBridges' = onlineBridges
            /\ out' = NoOut
            /\ c \in rooms[RoomName(last'.auth.gymId)]
            /\ rooms' = [r \in RoomNames |-> rooms[r] \ {c}]
            /\ status' = [status EXCEPT ![c] = "closed"]
            /\ chains' = chains
       /\ \A d \in Conns :
            status[d] = "closed" =>
              /\ out'[d] = <<>>
              /\ status'[d] = "closed"
              /\ \A r \in RoomNames : d \notin rooms'[r]
      ]_vars

\* C16 witness: an ADMIN of g1 has just disconnected while g1 has a presence
\* record and a member left in its room.
C16_Witness ==
    /\ last.op = "disconnect"
    /\ last.auth.type = "ADMIN"
    /\ last.auth.gymId = "g1"
    /\ status[LastConn] = "closed"
    /\ MapHas(onlineBridges, "g1")
    /\ rooms[RoomName("g1")] # {}


\* The event data of the logToDatabase call a hardware-event step started, and
\* what the step relayed.
Submitted == chains'[Len(chains')].eventData
RelayedVerbatim ==
    \A d \in Conns : \A i \in 1..Len(out'[d]) :
        out'[d][i] = Msg("hardware-event", last'.payload)

\* C18 as stated: the event submitted for persistence carries the gymId of
\* the sender's handshake, never the payload's; it consists of type, userId,
\* that gymId and a timestamp, which is the payload's timestamp when the
\* payload has one and the current time otherwise; the relayed copy is the
\* payload as received.
C18_PersistedTimestampWhenPresent ==
    [][(last'.op = "hardware-event" /\ Len(chains') > Len(chains)) =>
         /\ DOMAIN Submitted = {"type", "userId", "gymId", "timestamp"}
         /\ Submitted.gymId = last'.auth.gymId
         /\ Submitted.type = last'.payload.type
         /\ Submitted.userId = last'.payload.userId
         /\ Submitted.timestamp =
              IF last'.payload.timestamp # Undefined
              THEN last'.payload.timestamp ELSE "now"
         /\ RelayedVerbatim
      ]_vars

\* C18 amended: as above, but the timestamp is the payload's only when that
\* is truthy; an absent or falsy (empty, zero, null) timestamp is replaced by
\* the current time.
C18_PersistedTimestampWhenTruthy ==
    [][(last'.op = "hardware-event" /\ Len(chains') > Len(chains)) =>
         /\ DOMAIN Submitted = {"type", "userId", "gymId", "timestamp"}
         /\ Submitted.gymId = last'.auth.gymId
         /\ Submitted.type = last'.payload.type
         /\ Submitted.userId = last'.payload.userId
         /\ Submitted.timestamp =
              IF Falsy(last'.payload.timestamp)
              THEN "now" ELSE last'.payload.timestamp
         /\ RelayedVerbatim
      ]_vars

\* C18 witness: a connection admitted for g1 has sent a hardware-event whose
\* payload names g2; the call started for it carries g1, and another member
\* of g1's room got the payload with g2 in it.
C18_Witness ==
    /\ last.op = "hardware-event"
    /\ last.auth.gymId = "g1"
    /\ last.payload = SpoofPayload
    /\ Len(chains) > 0
    /\ chains[Len(chains)].eventData.gymId = "g1"
    /\ \E d \in Conns \ {LastConn} :
         out[d] = <<Msg("hardware-event", SpoofPayload)>>


\* C20: whenever the presence map has a record for a gym, the socket id it
\* holds is that of a connection that is connected and admitted, has role
\* BRIDGE, was admitted for that gym and is a member of the gym's room.
C20_RecordNamesLiveBridge ==
    \A g \in DOMAIN onlineBridges :
        LET b == onlineBridges[g] IN
        /\ b \in Conns
        /\ status[b] = "admitted"
        /\ handshake[b].type = "BRIDGE"
        /\ handshake[b].gymId = g
        /\ b \in rooms[RoomName(g)]

\* C20 witness: g1 has a record naming a connected bridge while another
\* connection of g1 is connected and some connection has been closed.
C20_Witness ==
    /\ MapHas(onlineBridges, "g1")
    /\ status[onlineBridges["g1"]] = "admitted"
    /\ \E d \in Conns : status[d] = "closed"
    /\ \E d \in Conns \ {onlineBridges["g1"]} :
         /\ status[d] = "admitted"
         /\ handshake[d].gymId = "g1"


\* C19: for every connected admitted ADMIN connection, the status of the last
\* bridge-status it was sent is ONLINE if and only if the presence map has a
\* record for its gym.
C19_AdminViewMatchesMap ==
    \A a \in Conns :
        (status[a] = "admitted" /\ handshake[a].type = "ADMIN") =>
            /\ heard[a] \in {"ONLINE", "OFFLINE"}
            /\ heard[a] = "ONLINE" <=> MapHas(onlineBridges, handshake[a].gymId)

\* C19 witness: an admin of g1 saw two bridges of g1 come and has just been
\* told OFFLINE by the disconnect of one of them, the other still connected.
C19_Witness ==
    /\ last.op = "disconnect"
    /\ last.auth.type = "BRIDGE"
    /\ last.auth.gymId = "g1"
    /\ \E a \in Conns :
         /\ status[a] = "admitted"
         /\ handshake[a].type = "ADMIN"
         /\ handshake[a].gymId = "g1"
         /\ heard[a] = "OFFLINE"
    /\ \E b \in Conns :
         /\ status[b] = "admitted"
         /\ handshake[b].type = "BRIDGE"
         /\ handshake[b].gymId = "g1"


====
